---- MODULE Spec2Model ----
(***************************************************************************)
(* The uplink Serializer (uplink/src/base/serializer.rs): the four-state   *)
(* machine driven by Serializer::start, its collector channel, the disk    *)
(* Storage it spools to, the AsyncClient it publishes through, and its     *)
(* Metrics; the Bridge (uplink/src/collector/bridge.rs) with its client    *)
(* connection, current action and action timeout; and the Process executor *)
(* (uplink/src/base/actions/process.rs) with its capture task.             *)
(***************************************************************************)
EXTENDS Naturals, Integers, Sequences, FiniteSets, TLC

(* ------------------------------ bounds --------------------------------- *)

\* packages the collectors hand to the Serializer in one run
MaxBatches == 2
\* capacity of the bounded collector channel
ChanCap == 1
\* try_publish calls the transport may reject with a full queue
MaxQueueFull == 2
\* storage operations that may fail in one run
MaxStorageFaults == 1
\* firings of the 10 second metrics interval in one run
MaxTicks == 1
\* records a segment holds before flush_on_overflow closes it
SegmentRecords == 1
\* closed segments the spool keeps before it deletes the oldest
MaxSegments == 1
\* errors handed to Metrics::add_errors in one run of the Metrics on its own
MaxErrorCount == 12
\* actions the cloud sends to the Bridge in one run
MaxActions == 2
\* lines the Bridge's client sends in one run
MaxLines == 3
\* execute calls made on the Process in one run
MaxExecs == 2
\* lines one child prints on its stdout
MaxChildLines == 2

(* ------------------------------ state ---------------------------------- *)

VARIABLES
    status,     \* the Status held by Serializer::start
    carried,    \* the Publish inside SlowEventloop(..) / EventLoopCrash(..)
    pc,         \* "enter": the state's function is about to run; "loop": it is in its select loop
    pending,    \* the pinned future: disk's `publish`, catchup's `send`
    exit,       \* "running", or the way Serializer::start ended
    chan,       \* collector channel contents, oldest first
    closed,     \* every sender of the collector channel has been dropped
    nextId,     \* id of the next package the collectors produce
    storage,    \* the disk Storage
    metrics,    \* the Metrics struct
    qfull,      \* try_publish calls rejected with a full queue so far
    dead,       \* transport calls that failed with a dead client so far
    sfaults,    \* storage operations that failed so far
    ticks,      \* metrics interval firings so far
    sent,       \* publishes the transport accepted, in order
    calls,      \* publish / try_publish calls made so far
    trace,      \* the Status values start() has held, in order
    spoolLog,   \* publishes written to the spool, in order
    crashAt,    \* Len(spoolLog) when EventLoopCrash was entered
    carriedLog, \* every publish a SlowEventloop / EventLoopCrash has carried
    overflowed, \* flush_on_overflow has deleted a segment
    spool0,     \* TRUE iff the spool was empty when the Serializer started
    produced,   \* the packages the collectors produced, by id
    bpc,            \* where Bridge::start is: "bind", "accept", "collect" or "stopped"
    current_action, \* Bridge.current_action: an action id, or NoAction
    action_timeout, \* collect's pinned sleep: "pending" or "elapsed"
    partitions,     \* collect's Partitions: the open batch of the stream
    data_tx,        \* what the Bridge handed to data_tx.send, in order
    actions_closed, \* every sender of actions_rx has been dropped
    nextAction,     \* id of the next action the cloud sends
    nextLine,       \* number of the next line the client sends
    forwarded,      \* ids of the actions written to the client, in order
    received,       \* for each action id, where start() was when it was received
    linesIn,        \* the well-formed points the frame arm received, in order
    routed,         \* the points handed to partitions.fill, in order
    last_process_done, \* Process.last_process_done
    epc,            \* where execute() is: "idle", "run" (check passed) or "capture" (run returned)
    eid,            \* id of the action the running execute() was given
    nextExec,       \* id of the action the next execute() is given
    children,       \* ids whose Child handle has not been dropped
    tasks,          \* ids whose capture task is in its loop
    running,        \* ids whose child process has not exited
    pipe,           \* for each id, the lines printed and not yet read
    printed,        \* for each id, every line its child printed
    statuses,       \* what the capture tasks handed to status_bucket.fill, in order
    captured,       \* for each entry of statuses, the task and the line it came from
    results,        \* what each execute() returned, in order
    spawned,        \* ids of the children cmd.spawn() created, in order
    waited          \* ids whose exit status the wait arm has logged

\* the Serializer and its collectors
svars == <<status, carried, pc, pending, exit, chan, closed, nextId, storage,
           metrics, qfull, dead, sfaults, ticks, sent, calls, trace, spoolLog,
           crashAt, carriedLog, overflowed, spool0, produced>>

\* the Bridge, its client and the cloud's actions
bvars == <<bpc, current_action, action_timeout, partitions, data_tx,
           actions_closed, nextAction, nextLine, forwarded, received, linesIn,
           routed>>

\* the Process executor, its children and its capture tasks
pvars == <<last_process_done, epc, eid, nextExec, children, tasks, running,
           pipe, printed, statuses, captured, results, spawned, waited>>

vars == <<svars, bvars, pvars>>

(* --------------------------- data and config --------------------------- *)

NoPublish == [topic |-> "none", id |-> 0, size |-> 0, pkid |-> 0, lost |-> 0]

\* Config.streams: stream name -> topic
TopicOf(stream) == "t/" \o stream

MetricsTopic == TopicOf("metrics")

\* the packages collectors produce: Package::stream, serialize().len(), anomalies()
Packages ==
    { [stream |-> "a", size |-> 1, anom |-> <<>>],
      [stream |-> "b", size |-> 2, anom |-> <<1, 1>>] }

\* Publish::new(topic, QoS::AtLeastOnce, payload): pkid starts 0
NewPublish(data) ==
    [topic |-> TopicOf(data.stream), id |-> data.id, size |-> data.size,
     pkid |-> 0, lost |-> 0]

\* a publish as the transport sees it: topic and payload, pkid aside
Norm(p) == [p EXCEPT !.pkid = 0]

\* a record left in the spool by a previous session
OldRecord == [topic |-> TopicOf("a"), id |-> 0, size |-> 1, pkid |-> 1, lost |-> 0]

(* ------------------------------ Storage -------------------------------- *)
\* The disk crate is not among the sources; it is modelled from the spool
\* contract: an append-only log of segments with a write end, a read cursor,
\* rotation on overflow and deletion of the oldest segment above the ceiling.
\* read: rest of the segment under the read cursor; backlog: closed segments,
\* oldest first; write: the open segment.

EmptyStorage == [read |-> <<>>, backlog |-> <<>>, write |-> <<>>]

\* publish.write(&mut storage.writer())
Write(st, p) == [st EXCEPT !.write = Append(@, p)]

\* storage.flush_on_overflow(): deleted is TRUE iff the oldest segment went
FlushOnOverflow(st) ==
    IF Len(st.write) >= SegmentRecords
    THEN LET b == Append(st.backlog, st.write) IN
         IF Len(b) > MaxSegments
         THEN [st |-> [st EXCEPT !.backlog = Tail(b), !.write = <<>>], deleted |-> TRUE]
         ELSE [st |-> [st EXCEPT !.backlog = b, !.write = <<>>], deleted |-> FALSE]
    ELSE [st |-> st, deleted |-> FALSE]

\* storage.reload_on_eof(): done is TRUE iff nothing is left to read
ReloadOnEof(st) ==
    IF st.read # <<>> THEN [st |-> st, done |-> FALSE]
    ELSE IF st.backlog # <<>>
    THEN [st |-> [st EXCEPT !.read = Head(st.backlog), !.backlog = Tail(@)],
          done |-> FALSE]
    ELSE [st |-> [st EXCEPT !.read = st.write, !.write = <<>>],
          done |-> st.write = <<>>]

\* read(storage.reader(), max_packet_size), Ok: the next record leaves the reader
ReadRest(st) == [st EXCEPT !.read = Tail(@)]

\* read(..), Err: a corrupt record makes the reader skip to the segment boundary
ReadSkip(st) == [st EXCEPT !.read = <<>>]

\* every record the spool holds, oldest first
RECURSIVE Flatten(_)
Flatten(segs) == IF segs = <<>> THEN <<>> ELSE Head(segs) \o Flatten(Tail(segs))

SpoolRecords(st) == st.read \o Flatten(st.backlog) \o st.write

(* ------------------------------ Metrics -------------------------------- *)

\* Metrics::new; errors is held by its length
NewMetrics ==
    [sequence |-> 0, total_sent_size |-> 0, total_disk_size |-> 0,
     lost_segments |-> 0, errors |-> 0, error_count |-> 0]

add_total_sent_size(m, size) == [m EXCEPT !.total_sent_size = @ + size]

add_total_disk_size(m, size) == [m EXCEPT !.total_disk_size = @ + size]

sub_total_disk_size(m, size) ==
    [m EXCEPT !.total_disk_size = IF @ >= size THEN @ - size ELSE 0]

increment_lost_segments(m) == [m EXCEPT !.lost_segments = @ + 1]

\* the separator add_errors pushes after each error: " | "
SeparatorLen == 3

\* errors.len() above which add_errors only counts
ErrorsLimit == 1024

add_errors(m, len, count) ==
    LET m1 == [m EXCEPT !.error_count = @ + count] IN
    IF m1.errors > ErrorsLimit THEN m1
    ELSE [m1 EXCEPT !.errors = @ + len + SeparatorLen]

\* serialized size of one metrics record
MetricsSize == 1

\* MetricsNext as it would be if next() left errors and lost_segments as they are
MetricsNext_keep(m) ==
    LET m1 == [m EXCEPT !.sequence = @ + 1] IN
    [publish |-> [topic |-> MetricsTopic, id |-> m1.sequence, size |-> MetricsSize,
                  pkid |-> 0, lost |-> m1.lost_segments],
     metrics |-> m1]

\* Metrics::next: the payload is serialized before errors and lost_segments are cleared
MetricsNext(m) ==
    LET m1 == [m EXCEPT !.sequence = @ + 1] IN
    [publish |-> [topic |-> MetricsTopic, id |-> m1.sequence, size |-> MetricsSize,
                  pkid |-> 0, lost |-> m1.lost_segments],
     metrics |-> [m1 EXCEPT !.errors = 0, !.lost_segments = 0]]

\* data.anomalies() handed to add_errors
Anomalies(m, data) ==
    IF data.anom = <<>> THEN m ELSE add_errors(m, data.anom[1], data.anom[2])

(* --------------------------- the state record -------------------------- *)

\* the current state as one record; each handler below maps it to the next
S ==
    [status |-> status, carried |-> carried, pc |-> pc, pending |-> pending,
     exit |-> exit, chan |-> chan, closed |-> closed, nextId |-> nextId,
     storage |-> storage, metrics |-> metrics, qfull |-> qfull, dead |-> dead,
     sfaults |-> sfaults, ticks |-> ticks, sent |-> sent, calls |-> calls,
     trace |-> trace, spoolLog |-> spoolLog, crashAt |-> crashAt,
     carriedLog |-> carriedLog, overflowed |-> overflowed, spool0 |-> spool0,
     produced |-> produced]

Apply(n) ==
    /\ status' = n.status /\ carried' = n.carried /\ pc' = n.pc
    /\ pending' = n.pending /\ exit' = n.exit /\ chan' = n.chan
    /\ closed' = n.closed /\ nextId' = n.nextId /\ storage' = n.storage
    /\ metrics' = n.metrics /\ qfull' = n.qfull /\ dead' = n.dead
    /\ sfaults' = n.sfaults /\ ticks' = n.ticks /\ sent' = n.sent
    /\ calls' = n.calls /\ trace' = n.trace /\ spoolLog' = n.spoolLog
    /\ crashAt' = n.crashAt /\ carriedLog' = n.carriedLog
    /\ overflowed' = n.overflowed /\ spool0' = n.spool0
    /\ produced' = n.produced
    /\ UNCHANGED <<bvars, pvars>>

\* a state function returns Ok(next status): start() holds it and calls its function
Goto(s, st, c) ==
    [s EXCEPT !.status = st, !.carried = c, !.pc = "enter",
              !.pending = NoPublish, !.trace = Append(@, st),
              !.carriedLog = IF c = NoPublish THEN @ ELSE @ \cup {c},
              !.crashAt = IF st = "EventLoopCrash" THEN Len(s.spoolLog) ELSE @]

\* a state function returns Err(..) (or panics): start() ends, its futures are dropped
Exit(s, how) == [s EXCEPT !.exit = how, !.pending = NoPublish]

\* the transport accepts a publish
Accept(s, p) == [s EXCEPT !.sent = Append(@, Norm(p))]

\* what a try_publish may answer
TryOutcomes(healthy) ==
    {"Ok"} \cup (IF qfull < MaxQueueFull THEN {"QueueFull"} ELSE {})
           \cup (IF healthy THEN {} ELSE {"ClientDead"})

\* how an async publish may complete
PublishOutcomes(healthy) ==
    {"Ok"} \cup (IF healthy THEN {} ELSE {"ClientDead", "Other"})

\* which of the storage operations `ops` may fail now
StorageFaults(healthy, ops) ==
    {"none"} \cup (IF ~healthy /\ sfaults < MaxStorageFaults THEN ops ELSE {})

(* ------------------------------ collectors ----------------------------- *)

\* a collector sends one package into the bounded channel
Produce ==
    /\ ~closed /\ nextId <= MaxBatches /\ Len(chan) < ChanCap
    /\ \E k \in Packages :
         Apply([S EXCEPT !.chan = Append(@, [stream |-> k.stream, id |-> nextId,
                                             size |-> k.size, anom |-> k.anom]),
                         !.nextId = @ + 1, !.produced = Append(@, k)])

\* the last sender of the channel is dropped
Close == ~closed /\ Apply([S EXCEPT !.closed = TRUE])

\* RecvReady as it would be if the pending publish were awaited before the
\* channel is polled
RecvReadyAfterPublish ==
    exit = "running" /\ pc = "loop" /\ (chan # <<>> \/ closed) /\ pending = NoPublish

\* collector_rx.recv() is ready: a package, or the error of a closed empty channel
RecvReady == exit = "running" /\ pc = "loop" /\ (chan # <<>> \/ closed)

(* ------------------------------- crash --------------------------------- *)

\* crash(): the code before the loop
crash_enter(s) == [s EXCEPT !.carried.pkid = 1, !.pc = "loop"]

\* crash_recv as it would be if crash() still forwarded data to the client
crash_recv_publish(s, f) ==
    LET data == Head(s.chan) IN
    Accept([s EXCEPT !.chan = Tail(@), !.calls = @ + 1], NewPublish(data))

\* crash(): one turn of the loop with data received; f: the storage operation that fails
crash_recv(s, f) ==
    LET data == Head(s.chan)
        p == [NewPublish(data) EXCEPT !.pkid = 1]
        s1 == [s EXCEPT !.chan = Tail(@)]
    IN  IF f = "write" THEN [s1 EXCEPT !.sfaults = @ + 1]
        ELSE LET s2 == [s1 EXCEPT !.storage = Write(@, p),
                                  !.spoolLog = Append(@, p)]
                 r == FlushOnOverflow(s2.storage)
             IN  IF f = "flush" THEN [s2 EXCEPT !.sfaults = @ + 1]
                 ELSE [s2 EXCEPT !.storage = r.st,
                                 !.overflowed = @ \/ r.deleted]

CrashEnter ==
    /\ exit = "running" /\ status = "EventLoopCrash" /\ pc = "enter"
    /\ Apply(crash_enter(S))

CrashRecv ==
    /\ RecvReady /\ status = "EventLoopCrash"
    /\ IF chan = <<>> THEN Apply(Exit(S, "Collector"))
       ELSE \E f \in StorageFaults(FALSE, {"write", "flush"}) : Apply(crash_recv(S, f))

(* -------------------------------- disk --------------------------------- *)

\* disk(): client.publish(..) of the carried publish is created and pinned
disk_enter(s) == [s EXCEPT !.pending = s.carried, !.pc = "loop", !.calls = @ + 1]

\* disk() and catchup(): the select arm that received data writes it to the spool
spool_recv(s, f) ==
    LET data == Head(s.chan)
        p == [NewPublish(data) EXCEPT !.pkid = 1]
        s1 == [s EXCEPT !.chan = Tail(@), !.metrics = Anomalies(@, data)]
    IN  IF f = "write" THEN [s1 EXCEPT !.sfaults = @ + 1]
        ELSE LET s2 == [s1 EXCEPT !.storage = Write(@, p),
                                  !.metrics = add_total_disk_size(@, p.size),
                                  !.spoolLog = Append(@, p)]
                 r == FlushOnOverflow(s2.storage)
             IN  IF f = "flush" THEN [s2 EXCEPT !.sfaults = @ + 1]
                 ELSE [s2 EXCEPT !.storage = r.st,
                                 !.metrics = IF r.deleted
                                             THEN increment_lost_segments(@) ELSE @,
                                 !.overflowed = @ \/ r.deleted]

\* disk_done as it would be if disk() returned without the publish having been sent
disk_done_drop(s, o) ==
    IF o = "Ok" THEN Goto(s, "EventLoopReady", NoPublish)
    ELSE Exit([s EXCEPT !.dead = IF o = "ClientDead" THEN @ + 1 ELSE @], "Client")

\* disk_done as it would be if disk() returned Status::Normal
disk_done_normal(s, o) ==
    IF o = "Ok" THEN Goto(Accept(s, s.pending), "Normal", NoPublish)
    ELSE Exit([s EXCEPT !.dead = IF o = "ClientDead" THEN @ + 1 ELSE @], "Client")

\* disk(): the pending publish completed with outcome o
disk_done(s, o) ==
    IF o = "Ok" THEN Goto(Accept(s, s.pending), "EventLoopReady", NoPublish)
    ELSE Exit([s EXCEPT !.dead = IF o = "ClientDead" THEN @ + 1 ELSE @], "Client")

DiskEnter ==
    /\ exit = "running" /\ status = "SlowEventloop" /\ pc = "enter"
    /\ Apply(disk_enter(S))

DiskRecv(healthy) ==
    /\ RecvReady /\ status = "SlowEventloop"
    /\ IF chan = <<>> THEN Apply(Exit(S, "Collector"))
       ELSE \E f \in StorageFaults(healthy, {"write", "flush"}) : Apply(spool_recv(S, f))

DiskPublishDone(healthy) ==
    /\ exit = "running" /\ status = "SlowEventloop" /\ pc = "loop"
    /\ \E o \in PublishOutcomes(healthy) : Apply(disk_done(S, o))

(* ------------------------------- catchup ------------------------------- *)

\* catchup_enter as it would be without the early return on a drained spool
catchup_enter_loop(s, f) ==
    IF f = "reload" THEN Exit([s EXCEPT !.sfaults = @ + 1], "Panic")
    ELSE LET r == ReloadOnEof(s.storage)
             s1 == [s EXCEPT !.storage = r.st]
         IN  IF r.done THEN [s1 EXCEPT !.pc = "loop"]
             ELSE IF f = "read"
             THEN Goto([s1 EXCEPT !.storage = ReadSkip(@), !.sfaults = @ + 1],
                       "Normal", NoPublish)
             ELSE [s1 EXCEPT !.storage = ReadRest(@), !.pending = Head(r.st.read),
                             !.pc = "loop", !.calls = @ + 1]

\* catchup(): the code before the loop; f: the storage operation that fails
catchup_enter(s, f) ==
    IF f = "reload" THEN Exit([s EXCEPT !.sfaults = @ + 1], "Panic")
    ELSE LET r == ReloadOnEof(s.storage)
             s1 == [s EXCEPT !.storage = r.st]
         IN  IF r.done THEN Goto(s1, "Normal", NoPublish)
             ELSE IF f = "read"
             THEN Goto([s1 EXCEPT !.storage = ReadSkip(@), !.sfaults = @ + 1],
                       "Normal", NoPublish)
             ELSE [s1 EXCEPT !.storage = ReadRest(@), !.pending = Head(r.st.read),
                             !.pc = "loop", !.calls = @ + 1]

\* catchup(): the send arm after a successful send: reload, read the next
\* record and send it; f: the storage operation that fails
catchup_next(s0, f) ==
    IF f = "reload" THEN Goto([s0 EXCEPT !.sfaults = @ + 1], "Normal", NoPublish)
    ELSE LET r == ReloadOnEof(s0.storage)
             s1 == [s0 EXCEPT !.storage = r.st]
         IN  IF r.done THEN Goto(s1, "Normal", NoPublish)
             ELSE IF f = "read"
             THEN Goto([s1 EXCEPT !.storage = ReadSkip(@), !.sfaults = @ + 1],
                       "Normal", NoPublish)
             ELSE LET p == Head(r.st.read) IN
                  [s1 EXCEPT !.storage = ReadRest(@),
                             !.metrics = add_total_sent_size(
                                             sub_total_disk_size(@, p.size), p.size),
                             !.pending = p, !.calls = @ + 1]

\* catchup_done as it would be if the crash status were built from the next
\* spool record instead of the request the error returns
catchup_done_next(s, o, f) ==
    IF o = "ClientDead"
    THEN Goto([s EXCEPT !.dead = @ + 1], "EventLoopCrash",
              IF SpoolRecords(s.storage) = <<>> THEN NoPublish
              ELSE Norm(Head(SpoolRecords(s.storage))))
    ELSE IF o = "Other" THEN Exit(s, "Client")
    ELSE catchup_next(Accept(s, s.pending), f)

\* catchup(): the pending send completed with outcome o; f: the storage operation that fails
catchup_done(s, o, f) ==
    IF o = "ClientDead"
    THEN Goto([s EXCEPT !.dead = @ + 1], "EventLoopCrash", Norm(s.pending))
    ELSE IF o = "Other" THEN Exit(s, "Client")
    ELSE catchup_next(Accept(s, s.pending), f)

CatchupEnter(healthy) ==
    /\ exit = "running" /\ status = "EventLoopReady" /\ pc = "enter"
    /\ \E f \in StorageFaults(healthy, {"reload", "read"}) : Apply(catchup_enter(S, f))

CatchupRecv(healthy) ==
    /\ RecvReady /\ status = "EventLoopReady"
    /\ IF chan = <<>> THEN Apply(Exit(S, "Collector"))
       ELSE \E f \in StorageFaults(healthy, {"write", "flush"}) : Apply(spool_recv(S, f))

CatchupSendDone(healthy) ==
    /\ exit = "running" /\ status = "EventLoopReady" /\ pc = "loop"
    /\ \E o \in PublishOutcomes(healthy) :
         \E f \in (IF o = "Ok" THEN StorageFaults(healthy, {"reload", "read"})
                   ELSE {"none"}) :
            Apply(catchup_done(S, o, f))

(* ------------------------------- normal -------------------------------- *)

\* normal(): time::interval is created
normal_enter(s) == [s EXCEPT !.pc = "loop"]

\* normal_try as it would be if both try_publish errors were taken for queue-full
normal_try_collapsed(s, p, o) ==
    LET s1 == [s EXCEPT !.calls = @ + 1] IN
    IF o = "Ok"
    THEN [Accept(s1, p) EXCEPT !.metrics = add_total_sent_size(@, p.size)]
    ELSE IF o = "QueueFull" THEN Goto([s1 EXCEPT !.qfull = @ + 1], "SlowEventloop", p)
    ELSE Goto([s1 EXCEPT !.dead = @ + 1], "SlowEventloop", p)

\* normal_try as it would be if normal() answered a dead client with
\* Status::EventLoopCrash
normal_try_crash(s, p, o) ==
    LET s1 == [s EXCEPT !.calls = @ + 1] IN
    IF o = "Ok"
    THEN [Accept(s1, p) EXCEPT !.metrics = add_total_sent_size(@, p.size)]
    ELSE IF o = "QueueFull" THEN Goto([s1 EXCEPT !.qfull = @ + 1], "SlowEventloop", p)
    ELSE Goto([s1 EXCEPT !.dead = @ + 1], "EventLoopCrash", p)

\* normal(): what follows a try_publish of p answered o
normal_try(s, p, o) ==
    LET s1 == [s EXCEPT !.calls = @ + 1] IN
    IF o = "Ok"
    THEN [Accept(s1, p) EXCEPT !.metrics = add_total_sent_size(@, p.size)]
    ELSE IF o = "QueueFull" THEN Goto([s1 EXCEPT !.qfull = @ + 1], "SlowEventloop", p)
    ELSE Exit([s1 EXCEPT !.dead = @ + 1], "Client")

\* normal(): the select arm that received data
normal_recv(s, o) ==
    LET data == Head(s.chan) IN
    normal_try([s EXCEPT !.chan = Tail(@), !.metrics = Anomalies(@, data)],
               NewPublish(data), o)

\* normal_tick as it would be if a metrics record rejected with queue-full were
\* dropped and normal() went on
normal_tick_lossy(s, o) ==
    LET n == MetricsNext(s.metrics)
        s1 == [s EXCEPT !.ticks = @ + 1, !.metrics = n.metrics]
    IN  IF o = "QueueFull" THEN [s1 EXCEPT !.calls = @ + 1, !.qfull = @ + 1]
        ELSE normal_try(s1, n.publish, o)

\* normal(): the select arm of interval.tick()
normal_tick(s, o) ==
    LET n == MetricsNext(s.metrics) IN
    normal_try([s EXCEPT !.ticks = @ + 1, !.metrics = n.metrics], n.publish, o)

NormalEnter ==
    /\ exit = "running" /\ status = "Normal" /\ pc = "enter"
    /\ Apply(normal_enter(S))

NormalRecv(healthy) ==
    /\ RecvReady /\ status = "Normal"
    /\ IF chan = <<>> THEN Apply(Exit(S, "Collector"))
       ELSE \E o \in TryOutcomes(healthy) : Apply(normal_recv(S, o))

NormalTick(healthy) ==
    /\ exit = "running" /\ status = "Normal" /\ pc = "loop" /\ ticks < MaxTicks
    /\ \E o \in TryOutcomes(healthy) : Apply(normal_tick(S, o))

(* ------------------------------- Bridge -------------------------------- *)

\* current_action: None
NoAction == 0

\* config.streams: buf_size of the one stream the client writes to
BufSize == 3

\* ActionResponse::new(id, state) followed by add_error(error)
Response(id, state, error) ==
    [kind |-> "status", id |-> id, state |-> state, error |-> error, points |-> <<>>]

\* a sealed Buffer<Payload> of the stream
Batch(points) ==
    [kind |-> "batch", id |-> 0, state |-> "", error |-> "", points |-> points]

\* Partitions::fill: append the point; a batch that reaches buf_size is sealed,
\* sent downstream and replaced by an empty one
Fill(part, point) ==
    LET b == Append(part, point) IN
    IF Len(b) >= BufSize THEN [part |-> <<>>, batch |-> b]
    ELSE [part |-> b, batch |-> <<>>]

\* the Bridge's state as one record
B ==
    [bpc |-> bpc, current_action |-> current_action,
     action_timeout |-> action_timeout, partitions |-> partitions,
     data_tx |-> data_tx, actions_closed |-> actions_closed,
     nextAction |-> nextAction, nextLine |-> nextLine, forwarded |-> forwarded,
     received |-> received, linesIn |-> linesIn, routed |-> routed]

BApply(n) ==
    /\ bpc' = n.bpc /\ current_action' = n.current_action
    /\ action_timeout' = n.action_timeout /\ partitions' = n.partitions
    /\ data_tx' = n.data_tx /\ actions_closed' = n.actions_closed
    /\ nextAction' = n.nextAction /\ nextLine' = n.nextLine
    /\ forwarded' = n.forwarded /\ received' = n.received
    /\ linesIn' = n.linesIn /\ routed' = n.routed
    /\ UNCHANGED <<svars, pvars>>

\* Bridge::new, before start() runs
BridgeInit ==
    /\ bpc = "bind" /\ current_action = NoAction /\ action_timeout = "pending"
    /\ partitions = <<>> /\ data_tx = <<>> /\ actions_closed = FALSE
    /\ nextAction = 1 /\ nextLine = 1 /\ forwarded = <<>> /\ received = <<>>
    /\ linesIn = <<>> /\ routed = <<>>

\* start(): TcpListener::bind; an error ends start()
start_bind(b, ok) == [b EXCEPT !.bpc = IF ok THEN "accept" ELSE "stopped"]

\* start(): listener.accept(); Ok breaks out of the accept loop and collect()
\* builds its Partitions and its 10 second sleep, Err continues
start_accept(b, ok) ==
    IF ok THEN [b EXCEPT !.bpc = "collect", !.partitions = <<>>,
                         !.action_timeout = "pending"]
    ELSE b

\* start_action as it would be if the accept loop recorded the action as current
start_action_record(b) ==
    [b EXCEPT !.data_tx = Append(@, Response(b.nextAction, "Failed", "Bridge down")),
              !.current_action = b.nextAction,
              !.received = Append(@, "accept"), !.nextAction = @ + 1]

\* start(): an action received in the accept loop
start_action(b) ==
    [b EXCEPT !.data_tx = Append(@, Response(b.nextAction, "Failed", "Bridge down")),
              !.received = Append(@, "accept"), !.nextAction = @ + 1]

\* collect() returns Err(..): its Partitions and its sleep are dropped
collect_return(b) ==
    [b EXCEPT !.bpc = "bind", !.partitions = <<>>, !.action_timeout = "pending"]

\* collect_frame as it would be if a line that does not parse ended the connection
collect_frame_strict(b, frame) ==
    IF frame \in {"done", "codec"} THEN collect_return(b)
    ELSE IF frame = "bad"
    THEN collect_return([b EXCEPT !.nextLine = @ + 1,
                                  !.current_action = NoAction])
    ELSE LET point == [stream |-> "imu", v |-> b.nextLine]
             b1 == [b EXCEPT !.nextLine = @ + 1, !.linesIn = Append(@, point)]
         IN  IF b1.current_action = NoAction THEN b1
             ELSE LET b2 == [b1 EXCEPT !.current_action = NoAction]
                      r == Fill(b2.partitions, point)
                  IN  [b2 EXCEPT !.partitions = r.part,
                                 !.routed = Append(@, point),
                                 !.data_tx = IF r.batch = <<>> THEN @
                                             ELSE Append(@, Batch(r.batch))]

\* collect(): the frame arm; frame is what framed.next() gave
collect_frame(b, frame) ==
    IF frame \in {"done", "codec"} THEN collect_return(b)
    ELSE LET point == [stream |-> "imu", v |-> b.nextLine]
             b1 == [b EXCEPT !.nextLine = @ + 1,
                             !.linesIn = IF frame = "point" THEN Append(@, point) ELSE @]
         IN  IF b1.current_action = NoAction THEN b1
             ELSE LET b2 == [b1 EXCEPT !.current_action = NoAction] IN
                  IF frame = "bad" THEN b2
                  ELSE LET r == Fill(b2.partitions, point) IN
                       [b2 EXCEPT !.partitions = r.part,
                                  !.routed = Append(@, point),
                                  !.data_tx = IF r.batch = <<>> THEN @
                                              ELSE Append(@, Batch(r.batch))]

\* collect(): the action arm; o is "Closed" for a closed channel, else how
\* serializing and writing the action went
collect_action(b, o) ==
    IF o = "Closed" THEN collect_return(b)
    ELSE LET b1 == [b EXCEPT !.current_action = b.nextAction,
                             !.action_timeout = "pending",
                             !.received = Append(@, "collect"),
                             !.nextAction = @ + 1]
         IN  IF o = "SerErr" THEN b1
             ELSE IF o = "IoErr" THEN collect_return(b1)
             ELSE [b1 EXCEPT !.forwarded = Append(@, b.nextAction)]

\* collect_timeout as it would be if the timeout arm left current_action set
collect_timeout_keep(b) ==
    [b EXCEPT !.data_tx = Append(@, Response(b.current_action, "Failed",
                                              "Action timed out"))]

\* collect(): the timeout arm
collect_timeout(b) ==
    [b EXCEPT !.current_action = NoAction,
              !.data_tx = Append(@, Response(b.current_action, "Failed",
                                              "Action timed out"))]

StartBind == bpc = "bind" /\ \E ok \in BOOLEAN : BApply(start_bind(B, ok))

StartAccept == bpc = "accept" /\ \E ok \in BOOLEAN : BApply(start_accept(B, ok))

\* `Some(action) = self.actions_rx.recv()`: disabled once the channel is closed
StartAction ==
    /\ bpc = "accept" /\ ~actions_closed /\ nextAction <= MaxActions
    /\ BApply(start_action(B))

CollectFrame ==
    /\ bpc = "collect"
    /\ \E frame \in {"done", "codec"} \cup
                    (IF nextLine <= MaxLines THEN {"point", "bad"} ELSE {}) :
         BApply(collect_frame(B, frame))

CollectAction ==
    /\ bpc = "collect"
    /\ IF actions_closed THEN BApply(collect_action(B, "Closed"))
       ELSE /\ nextAction <= MaxActions
            /\ \E o \in {"Ok", "SerErr", "IoErr"} : BApply(collect_action(B, o))

\* `_ = &mut action_timeout, if self.current_action.is_some()`
CollectTimeout ==
    /\ bpc = "collect" /\ action_timeout = "elapsed" /\ current_action # NoAction
    /\ BApply(collect_timeout(B))

\* ten seconds pass since the sleep was created or last reset
TimerElapse ==
    /\ bpc = "collect" /\ action_timeout = "pending"
    /\ BApply([B EXCEPT !.action_timeout = "elapsed"])

\* the last sender of actions_rx is dropped
ActionsClose == ~actions_closed /\ BApply([B EXCEPT !.actions_closed = TRUE])

(* ------------------------------- Process ------------------------------- *)

\* the id the capture task gives to the response of a line that does not parse
DummyId == 0

\* ActionResponse::failure(id, error)
Failure(id, error) == Response(id, "Failed", error)

\* what a child prints: a line that parses as an ActionResponse, or one that does not
ChildLines == {"valid", "junk"}

\* the ActionResponse a valid line of the child of action id parses to
Parsed(id) == Response(id, "Progress", "")

\* the Process's state as one record
P ==
    [last_process_done |-> last_process_done, epc |-> epc, eid |-> eid,
     nextExec |-> nextExec, children |-> children, tasks |-> tasks,
     running |-> running, pipe |-> pipe, printed |-> printed,
     statuses |-> statuses, captured |-> captured, results |-> results,
     spawned |-> spawned, waited |-> waited]

PApply(n) ==
    /\ last_process_done' = n.last_process_done /\ epc' = n.epc /\ eid' = n.eid
    /\ nextExec' = n.nextExec /\ children' = n.children /\ tasks' = n.tasks
    /\ running' = n.running /\ pipe' = n.pipe /\ printed' = n.printed
    /\ statuses' = n.statuses /\ captured' = n.captured /\ results' = n.results
    /\ spawned' = n.spawned /\ waited' = n.waited
    /\ UNCHANGED <<svars, bvars>>

\* Process::new
ProcessInit ==
    /\ last_process_done = TRUE /\ epc = "idle" /\ eid = NoAction /\ nextExec = 1
    /\ children = {} /\ tasks = {} /\ running = {}
    /\ pipe = [id \in 1..MaxExecs |-> <<>>]
    /\ printed = [id \in 1..MaxExecs |-> <<>>]
    /\ statuses = <<>> /\ captured = <<>> /\ results = <<>> /\ spawned = <<>>
    /\ waited = {}

\* execute() returns
Return(p, id, result) ==
    [p EXCEPT !.results = Append(@, [id |-> id, result |-> result]),
              !.epc = "idle", !.eid = NoAction]

\* execute_check as it would be without the test of last_process_done
execute_check_always(p) ==
    [p EXCEPT !.epc = "run", !.eid = p.nextExec, !.nextExec = @ + 1]

\* execute(): the test of last_process_done
execute_check(p) ==
    IF p.last_process_done = FALSE
    THEN Return([p EXCEPT !.nextExec = @ + 1], p.nextExec, "Busy")
    ELSE [p EXCEPT !.epc = "run", !.eid = p.nextExec, !.nextExec = @ + 1]

\* run(): the flag goes false, cmd.spawn() succeeds or fails
run(p, ok) ==
    LET p1 == [p EXCEPT !.last_process_done = FALSE] IN
    IF ok
    THEN [p1 EXCEPT !.children = @ \cup {p.eid}, !.running = @ \cup {p.eid},
                    !.spawned = Append(@, p.eid), !.epc = "capture"]
    ELSE Return([p1 EXCEPT !.last_process_done = TRUE], p.eid, "Io")

\* spawn_and_capture_stdout(): child.stdout.take() gives the pipe and the
\* capture task is spawned with the child, or it gives None and the function
\* returns NoStdout, dropping the child (kill_on_drop)
spawn_and_capture_stdout(p, stdout) ==
    IF stdout
    THEN Return([p EXCEPT !.tasks = @ \cup {p.eid}], p.eid, "Ok")
    ELSE Return([p EXCEPT !.children = @ \ {p.eid}, !.running = @ \ {p.eid},
                          !.pipe[p.eid] = <<>>],
                p.eid, "NoStdout")

\* the child of action id prints a line
child_print(p, id, line) ==
    [p EXCEPT !.pipe[id] = Append(@, line), !.printed[id] = Append(@, line)]

\* the child of action id exits
child_exit(p, id) == [p EXCEPT !.running = @ \ {id}]

\* the capture task of action id: the arm of stdout.next_line()
capture_line(p, id) ==
    LET line == Head(p.pipe[id])
        resp == IF line = "valid" THEN Parsed(id) ELSE Failure(DummyId, "parse")
    IN  [p EXCEPT !.pipe[id] = Tail(@),
                  !.statuses = Append(@, resp),
                  !.captured = Append(@, [id |-> id, line |-> line])]

\* the capture task of action id: the arm of child.wait()
capture_wait(p, id) == [p EXCEPT !.waited = @ \cup {id}]

\* the capture task of action id: the timeout arm breaks the loop, the flag
\* goes true and the task ends, dropping the child (kill_on_drop) and its stdout
capture_timeout(p, id) ==
    [p EXCEPT !.last_process_done = TRUE, !.tasks = @ \ {id},
              !.children = @ \ {id}, !.running = @ \ {id}, !.pipe[id] = <<>>]

ExecuteCheck ==
    /\ epc = "idle" /\ nextExec <= MaxExecs
    /\ PApply(execute_check(P))

ExecuteRun == epc = "run" /\ \E ok \in BOOLEAN : PApply(run(P, ok))

ExecuteCapture ==
    epc = "capture" /\ \E stdout \in BOOLEAN : PApply(spawn_and_capture_stdout(P, stdout))

ChildPrint ==
    \E id \in running :
        /\ Len(printed[id]) < MaxChildLines
        /\ \E line \in ChildLines : PApply(child_print(P, id, line))

ChildExit == \E id \in running : PApply(child_exit(P, id))

CaptureLine == \E id \in tasks : pipe[id] # <<>> /\ PApply(capture_line(P, id))

CaptureWait == \E id \in tasks : id \notin running /\ PApply(capture_wait(P, id))

\* ten seconds after the capture task started
CaptureTimeout == \E id \in tasks : PApply(capture_timeout(P, id))

(* ------------------------- Metrics on its own -------------------------- *)

\* lengths of the error strings anomalies() hands to add_errors
ErrorLens == {1, 97}

\* one add_errors call with an error of any of the lengths, counted once
MetricsAddErrors ==
    /\ metrics.error_count < MaxErrorCount
    /\ \E len \in ErrorLens : Apply([S EXCEPT !.metrics = add_errors(@, len, 1)])

\* one Metrics::next call
MetricsEmit ==
    /\ ticks < MaxTicks
    /\ Apply([S EXCEPT !.ticks = @ + 1, !.metrics = MetricsNext(@).metrics])

(* ---------------------------- specifications --------------------------- *)

\* Serializer::start: let mut status = Status::EventLoopReady
InitStatus == "EventLoopReady"

\* what a previous session may have left in the spool
InitStorages == {EmptyStorage, [EmptyStorage EXCEPT !.backlog = <<<<OldRecord>>>>]}

InitWith(nfaults) ==
    /\ status = InitStatus /\ carried = NoPublish /\ pc = "enter"
    /\ pending = NoPublish /\ exit = "running"
    /\ chan = <<>> /\ closed = FALSE /\ nextId = 1
    /\ storage \in InitStorages
    /\ spool0 = (storage = EmptyStorage)
    /\ metrics = NewMetrics
    /\ qfull = 0 /\ dead = 0 /\ sfaults = nfaults /\ ticks = 0
    /\ sent = <<>> /\ calls = 0 /\ trace = <<InitStatus>> /\ spoolLog = <<>>
    /\ crashAt = 0 /\ carriedLog = {} /\ overflowed = FALSE /\ produced = <<>>
    /\ BridgeInit
    /\ ProcessInit

Init == InitWith(0)

Next ==
    \/ Produce
    \/ Close
    \/ CatchupEnter(FALSE)
    \/ CatchupRecv(FALSE)
    \/ CatchupSendDone(FALSE)
    \/ NormalEnter
    \/ NormalRecv(FALSE)
    \/ NormalTick(FALSE)
    \/ DiskEnter
    \/ DiskRecv(FALSE)
    \/ DiskPublishDone(FALSE)
    \/ CrashEnter
    \/ CrashRecv

Spec == Init /\ [][Next]_vars

\* The same Serializer with a disk that does not fail, a transport that may
\* answer queue-full (at most MaxQueueFull times) but never dies, and a
\* collector channel that stays open.  select! polls its ready arms in random
\* order and the transport completes an accepted request, so no enabled arm
\* is starved.
NextLive ==
    \/ Produce
    \/ CatchupEnter(TRUE)
    \/ CatchupRecv(TRUE)
    \/ CatchupSendDone(TRUE)
    \/ NormalEnter
    \/ NormalRecv(TRUE)
    \/ NormalTick(TRUE)
    \/ DiskEnter
    \/ DiskRecv(TRUE)
    \/ DiskPublishDone(TRUE)

SpecLive ==
    /\ Init /\ [][NextLive]_vars
    /\ WF_vars(CatchupEnter(TRUE)) /\ WF_vars(CatchupRecv(TRUE))
    /\ WF_vars(CatchupSendDone(TRUE)) /\ WF_vars(NormalEnter)
    /\ WF_vars(NormalRecv(TRUE)) /\ WF_vars(DiskEnter)
    /\ WF_vars(DiskRecv(TRUE)) /\ WF_vars(DiskPublishDone(TRUE))

\* The Metrics struct driven on its own: any sequence of add_errors and next
InitMetrics == InitWith(0) /\ storage = EmptyStorage

NextMetrics ==
    \/ MetricsAddErrors
    \/ MetricsEmit

SpecMetrics == InitMetrics /\ [][NextMetrics]_vars

\* Bridge::start with its client, the cloud's actions and the passing of time
InitBridge == InitWith(0) /\ storage = EmptyStorage

NextBridge ==
    \/ StartBind
    \/ StartAccept
    \/ StartAction
    \/ CollectFrame
    \/ CollectAction
    \/ CollectTimeout
    \/ TimerElapse
    \/ ActionsClose

SpecBridge == InitBridge /\ [][NextBridge]_vars

\* the Process with its callers, its children and the passing of time
InitProcess == InitWith(0) /\ storage = EmptyStorage

NextProcess ==
    \/ ExecuteCheck
    \/ ExecuteRun
    \/ ExecuteCapture
    \/ ChildPrint
    \/ ChildExit
    \/ CaptureLine
    \/ CaptureWait
    \/ CaptureTimeout

SpecProcess == InitProcess /\ [][NextProcess]_vars

(* ------------------------------- claims -------------------------------- *)

\* package id has left the collector channel: the Serializer received it
Received(id) == id < nextId /\ \A i \in DOMAIN chan : chan[i].id # id

\* positions of `sent` at which package id was handed over on its stream's topic
HandedAt(id) ==
    {i \in DOMAIN sent : /\ id \in DOMAIN produced /\ sent[i].id = id
                          /\ sent[i].topic = TopicOf(produced[id].stream)}

\* C1 (no-loss): under a healthy disk and a transport that rejects with
\* queue-full only finitely often, every package the Serializer received is
\* eventually handed to the transport on its stream's topic, unless the spool
\* overflowed and deleted a segment.
C1_NoLoss ==
    \A id \in 1..MaxBatches : Received(id) ~> (HandedAt(id) # {} \/ overflowed)

\* C1 witness: a package that was rejected with queue-full and packages that
\* went through the spool have all reached the transport.
C1_Witness ==
    /\ nextId > MaxBatches /\ qfull > 0 /\ ~overflowed /\ Len(spoolLog) > 0
    /\ \A id \in 1..MaxBatches : HandedAt(id) # {}

\* package publishes of this run, as opposed to metrics and old spool records
IsBatch(p) == p.id >= 1 /\ p.topic # MetricsTopic

\* C2 (intra-stream order): two packages of one stream reach the transport in
\* the order the Serializer received them (ids grow in arrival order).
C2_IntraStreamOrder ==
    \A i, j \in DOMAIN sent :
        (i < j /\ IsBatch(sent[i]) /\ IsBatch(sent[j]) /\ sent[i].topic = sent[j].topic)
            => sent[i].id <= sent[j].id

\* p is among the records the spool holds
InSpool(p) == \E i \in DOMAIN SpoolRecords(storage) : Norm(SpoolRecords(storage)[i]) = Norm(p)

\* the transport accepted p
Accepted(p) == \E i \in DOMAIN sent : sent[i] = Norm(p)

\* p is the publish the current status carries and its function has not yet
\* gone past the point where it must have dealt with it
StillCarried(p) ==
    /\ exit = "running" /\ Norm(carried) = Norm(p)
    /\ \/ status = "SlowEventloop"
       \/ status = "EventLoopCrash" /\ Len(spoolLog) = crashAt

\* C3 (carried publish never lost): every publish a SlowEventloop or
\* EventLoopCrash status has carried is still being handled, or the transport
\* accepted it, or it is in the spool (unless overflow deleted a segment).
C3_CarriedNeverLost ==
    \A p \in carriedLog : StillCarried(p) \/ Accepted(p) \/ InSpool(p) \/ overflowed

\* C4 (crash writes the failed publish first): the first record written to
\* the spool after EventLoopCrash(publish) is entered is that publish.
C4_CrashWritesFailedFirst ==
    (status = "EventLoopCrash" /\ Len(spoolLog) > crashAt)
        => Norm(spoolLog[crashAt + 1]) = Norm(carried)

\* C5 (crash sink): from EventLoopCrash no step calls the transport, hands it
\* anything or changes the status; the Serializer only ends, and only with
\* the collector error of a closed, drained channel.
C5_CrashSink ==
    [][status = "EventLoopCrash" =>
          /\ status' = "EventLoopCrash" /\ trace' = trace
          /\ calls' = calls /\ sent' = sent /\ pending' = NoPublish
          /\ (exit' # exit => exit' = "Collector" /\ closed /\ chan = <<>>)]_vars

\* C5 witness: the crash sink spooled a package and then ended on the closed channel
C5_Witness ==
    status = "EventLoopCrash" /\ exit = "Collector" /\ Len(spoolLog) > crashAt

\* a step the Serializer takes by itself: the entry code of a state function,
\* or the select arm of the collector channel
SerializerStep ==
    \/ CatchupEnter(FALSE) \/ NormalEnter \/ DiskEnter \/ CrashEnter
    \/ CatchupRecv(FALSE) \/ NormalRecv(FALSE) \/ DiskRecv(FALSE) \/ CrashRecv

\* the collector arm took the oldest package while a publish was pending
PendingRecv ==
    /\ status \in {"SlowEventloop", "EventLoopReady"} /\ pc = "loop"
    /\ chan # <<>> /\ chan' = Tail(chan)

\* C6 (back-pressure isolation): while the Serializer runs and the channel
\* holds a package, a step that does not wait for the transport is enabled;
\* and a package received while a publish is pending leaves that publish
\* pending, makes no transport call and, unless the write failed, becomes the
\* newest record of the spool.
C6_BackPressureIsolation ==
    /\ []((exit = "running" /\ chan # <<>>) => ENABLED SerializerStep)
    /\ [][PendingRecv =>
            /\ pending' = pending /\ calls' = calls /\ sent' = sent
            /\ status' = status /\ exit' = "running"
            /\ \/ sfaults' > sfaults /\ spoolLog' = spoolLog
               \/ /\ spoolLog' = Append(spoolLog, [NewPublish(Head(chan)) EXCEPT !.pkid = 1])
                  /\ SpoolRecords(storage') # <<>>
                  /\ SpoolRecords(storage')[Len(SpoolRecords(storage'))]
                       = [NewPublish(Head(chan)) EXCEPT !.pkid = 1]]_vars

\* C6 witness: packages were spooled while the publish carried by
\* SlowEventloop was still pending
C6_Witness ==
    /\ status = "SlowEventloop" /\ pending # NoPublish /\ exit = "running"
    /\ Len(SpoolRecords(storage)) >= 2

\* the transport has accepted every try_publish so far
TryAlwaysAccepted == qfull = 0 /\ dead = 0

\* C7 (state-machine closure): from EventLoopReady with an empty spool and a
\* transport that accepts every try_publish, the only transition is
\* EventLoopReady -> Normal, taken before any transport call or receive.
C7_Closure ==
    (spool0 /\ TryAlwaysAccepted) =>
        \/ /\ trace = <<"EventLoopReady">>
           /\ calls = 0 /\ \A id \in 1..MaxBatches : ~Received(id)
        \/ trace = <<"EventLoopReady", "Normal">>

\* C7 witness: Normal has published every package and a metrics record
C7_Witness ==
    /\ spool0 /\ TryAlwaysAccepted /\ trace = <<"EventLoopReady", "Normal">>
    /\ Len(sent) = MaxBatches + 1 /\ ticks >= 1

\* the states of scenario S2, after the start in EventLoopReady
S2Trace == <<"EventLoopReady", "Normal", "SlowEventloop", "EventLoopReady", "Normal">>

\* scenario S2 so far: empty spool at start, one try_publish of a package
\* rejected with queue-full, no other transport or disk failure
S2Run ==
    /\ spool0 /\ qfull = 1 /\ dead = 0 /\ sfaults = 0
    /\ \A p \in carriedLog : IsBatch(p)

\* C8 (scenario S2): the statuses visited are a prefix of Normal ->
\* SlowEventloop -> EventLoopReady -> Normal; once SlowEventloop is left the
\* rejected package has been delivered, and it is never delivered twice; the
\* spool is empty when Normal is entered again.
C8_ScenarioS2 ==
    S2Run =>
        /\ Len(trace) >= 3 /\ Len(trace) <= 5 /\ trace = SubSeq(S2Trace, 1, Len(trace))
        /\ \A p \in carriedLog :
              /\ Cardinality({i \in DOMAIN sent : sent[i] = Norm(p)}) <= 1
              /\ Len(trace) >= 4 => Accepted(p)
        /\ Len(trace) = 5 => SpoolRecords(storage) = <<>>

\* C8 witness: the whole of S2 has happened and Normal runs again
C8_Witness == S2Run /\ trace = S2Trace /\ pc = "loop" /\ exit = "running"

\* the publish a step of Normal hands to try_publish
TriedInNormal ==
    IF chan' # chan THEN NewPublish(Head(chan)) ELSE MetricsNext(metrics).publish

\* C9 (try_publish failures in Normal): queue-full leads to SlowEventloop
\* carrying exactly the rejected publish; client-dead ends the Serializer with
\* the client error and no transition; success stays in Normal.
C9_TryPublishOutcomes ==
    [][(status = "Normal" /\ calls' = calls + 1) =>
          /\ qfull' = qfull + 1 =>
                /\ status' = "SlowEventloop" /\ carried' = TriedInNormal
                /\ exit' = "running" /\ sent' = sent /\ dead' = dead
          /\ dead' = dead + 1 =>
                /\ exit' = "Client" /\ status' = "Normal" /\ trace' = trace
                /\ sent' = sent /\ carried' = NoPublish /\ qfull' = qfull
          /\ (qfull' = qfull /\ dead' = dead) =>
                /\ status' = "Normal" /\ trace' = trace /\ exit' = "running"
                /\ sent' = Append(sent, TriedInNormal)]_vars

\* C9 witness: a queue-full sent the Serializer through SlowEventloop and,
\* back in Normal, a client-dead try_publish ended it
C9_Witness ==
    status = "Normal" /\ exit = "Client" /\ qfull = 1 /\ dead = 1 /\ Len(trace) >= 5

\* C10 (client-dead during catchup): a replayed record whose send fails with
\* client-dead is exactly what EventLoopCrash carries, and catchup enters
\* EventLoopCrash in no other way.
C10_CrashCarriesFailed ==
    [][status = "EventLoopReady" =>
          /\ dead' = dead + 1 =>
                /\ status' = "EventLoopCrash" /\ exit' = "running"
                /\ pending # NoPublish /\ Norm(carried') = Norm(pending)
          /\ status' = "EventLoopCrash" => dead' = dead + 1]_vars

\* C10 witness: EventLoopCrash carries a replayed package while the spool
\* still holds the record that would have been replayed next
C10_Witness ==
    /\ status = "EventLoopCrash" /\ IsBatch(carried)
    /\ SpoolRecords(storage) # <<>>
    /\ Norm(Head(SpoolRecords(storage))) # Norm(carried)

\* C11: right after every Metrics::next (the only step that changes sequence)
\* errors is empty and lost_segments is 0, and no step of the Serializer
\* lowers error_count or total_sent_size.
C11_MetricsIdempotence ==
    [][ /\ metrics'.error_count >= metrics.error_count
        /\ metrics'.total_sent_size >= metrics.total_sent_size
        /\ (metrics'.sequence # metrics.sequence
               => metrics'.errors = 0 /\ metrics'.lost_segments = 0) ]_vars

\* a metrics record was emitted after errors had been counted and a segment
\* had been lost, and both fields read as cleared
C11_Witness ==
    /\ metrics.sequence > 0 /\ metrics.error_count > 0 /\ overflowed
    /\ metrics.errors = 0 /\ metrics.lost_segments = 0

\* C12: after any sequence of add_errors calls the errors string is at most
\* 1024 characters long.
C12_ErrorsCapped == metrics.errors <= ErrorsLimit
\* the arrows of the state diagram
Transitions ==
    { <<"EventLoopReady", "Normal">>, <<"EventLoopReady", "EventLoopCrash">>,
      <<"Normal", "SlowEventloop">>, <<"SlowEventloop", "EventLoopReady">> }

\* C19: the status starts as EventLoopReady and every two consecutive statuses
\* start() holds are Ready -> Normal, Ready -> Crash, Normal -> Slow or
\* Slow -> Ready.
C19_StatusTransitions ==
    /\ trace[1] = "EventLoopReady"
    /\ trace[Len(trace)] = status
    /\ \A i \in 1..(Len(trace) - 1) : <<trace[i], trace[i + 1]>> \in Transitions

\* one run that takes all four arrows
C19_Witness ==
    trace = <<"EventLoopReady", "Normal", "SlowEventloop", "EventLoopReady",
              "EventLoopCrash">>

\* C20: a step of catchup in which replaying the spool fails (reload_on_eof
\* or the read of a record, at entry or after a completed send; the channel
\* is not touched) leaves the Serializer running, in Normal, with no record
\* in flight.
C20_CatchupSpoolFailure ==
    [][ (status = "EventLoopReady" /\ sfaults' = sfaults + 1 /\ chan' = chan)
          => (exit' = "running" /\ status' = "Normal" /\ pending' = NoPublish) ]_vars
\* C13: every well-formed line the Bridge receives from its client is handed to
\* the Partition Set, whether or not an action is awaiting a response; three
\* lines fill one batch of three points, in order.
C13_LinesRouted ==
    /\ routed = linesIn
    /\ Len(linesIn) = BufSize =>
         \E i \in DOMAIN data_tx : data_tx[i] = Batch(linesIn)

\* the responses handed downstream for action id
ResponsesFor(id) ==
    {i \in DOMAIN data_tx : data_tx[i].kind = "status" /\ data_tx[i].id = id}

\* C14: an action received while no client is connected gets exactly one
\* ActionResponse, "Failed" with "Bridge down", is not written to any client
\* and is not the current action.
C14_BridgeDown ==
    \A id \in DOMAIN received :
        received[id] = "accept" =>
            /\ Cardinality(ResponsesFor(id)) = 1
            /\ \A i \in ResponsesFor(id) :
                   data_tx[i] = Response(id, "Failed", "Bridge down")
            /\ \A i \in DOMAIN forwarded : forwarded[i] # id
            /\ current_action # id

\* an action failed with "Bridge down" while an earlier one, forwarded before
\* the client left, is still the current action
C14_Witness ==
    /\ bpc = "accept" /\ Len(received) = 2 /\ received[2] = "accept"
    /\ current_action = 1 /\ forwarded = <<1>>
    /\ data_tx = <<Response(2, "Failed", "Bridge down")>>

\* the timeout responses handed downstream for action id
TimedOutFor(id) ==
    {i \in ResponsesFor(id) : data_tx[i].error = "Action timed out"}

\* C15: the timeout arm runs only with a current action and an elapsed timer;
\* it hands down one "Failed" / "Action timed out" response for that action
\* and clears the current action; it is ready whenever the timer of a current
\* action has elapsed.
C15_ActionTimeout ==
    /\ [][ (Len(data_tx') > Len(data_tx)
              /\ data_tx'[Len(data_tx')].error = "Action timed out")
           => /\ current_action # NoAction /\ action_timeout = "elapsed"
              /\ data_tx' = Append(data_tx, Response(current_action, "Failed",
                                                     "Action timed out"))
              /\ current_action' = NoAction ]_vars
    /\ [](\A id \in DOMAIN received : Cardinality(TimedOutFor(id)) <= 1)
    /\ []((bpc = "collect" /\ action_timeout = "elapsed" /\ current_action # NoAction)
            => ENABLED CollectTimeout)

\* a forwarded action timed out with no line from the client in between
C15_Witness ==
    /\ forwarded = <<1>> /\ nextLine = 1 /\ current_action = NoAction
    /\ data_tx = <<Response(1, "Failed", "Action timed out")>>
\* C16: execute returns Busy, spawning nothing, whenever a capture task is
\* still in its loop; at most one capture task and at most one child exist at
\* any time, and the flag is false while a capture task runs.
C16_MutualExclusion ==
    /\ [][ (tasks # {} /\ Len(results') > Len(results))
           => /\ results'[Len(results')].result = "Busy"
              /\ spawned' = spawned /\ children' = children /\ tasks' = tasks ]_vars
    /\ [](Cardinality(tasks) <= 1 /\ Cardinality(children) <= 1)
    /\ [](tasks # {} => last_process_done = FALSE)

\* the second execute was refused while the first child's capture task ran
C16_Witness ==
    /\ tasks = {1} /\ children = {1} /\ spawned = <<1>>
    /\ results = <<[id |-> 1, result |-> "Ok"], [id |-> 2, result |-> "Busy"]>>

\* valid lines among those a child printed
ValidCount(lines) == Cardinality({i \in DOMAIN lines : lines[i] = "valid"})

\* responses forwarded for the valid lines of the child of action id
ForwardedFor(id) ==
    Cardinality({i \in DOMAIN statuses :
                    /\ captured[i] = [id |-> id, line |-> "valid"]
                    /\ statuses[i] = Parsed(id)})

\* some execute found its child without a stdout
NoStdoutSeen == \E i \in DOMAIN results : results[i].result = "NoStdout"

\* the flag is false while a capture task is in its loop and, every spawned
\* child having had its capture task, true once no execute and no capture
\* task is under way
FlagFollowsCapture ==
    /\ tasks # {} => last_process_done = FALSE
    /\ (tasks = {} /\ epc = "idle" /\ ~NoStdoutSeen) => last_process_done = TRUE

\* C17: after an execute that spawned a child the flag is false until the
\* capture loop exits and true from then on, and every valid line the child
\* printed before the exit has been forwarded as one ActionResponse.
C17_CaptureLifecycle ==
    /\ FlagFollowsCapture
    /\ \A i \in DOMAIN results :
          (results[i].result = "Ok" /\ results[i].id \notin tasks)
             => ForwardedFor(results[i].id) = ValidCount(printed[results[i].id])

\* C18: the response forwarded for a line that does not parse is a failure
\* response carrying the id of the action being executed.
C18_UnparseableUsesActionId ==
    \A i \in DOMAIN statuses :
        captured[i].line = "junk" =>
            statuses[i].id = captured[i].id /\ statuses[i].state = "Failed"
\* this step wrote a record to the spool and flush_on_overflow deleted the
\* oldest segment: the spool did not grow by the record written
SegmentDeleted ==
    /\ spoolLog' # spoolLog
    /\ Len(SpoolRecords(storage')) <= Len(SpoolRecords(storage))

\* C21: in every state that writes to the spool, a step in which
\* flush_on_overflow deletes the oldest segment adds one to lost_segments.
C21_LostSegmentsCounted ==
    [][ SegmentDeleted => metrics'.lost_segments = metrics.lost_segments + 1 ]_vars

\* sum of the payload sizes of a sequence of publishes
RECURSIVE SumSizes(_)
SumSizes(ps) == IF ps = <<>> THEN 0 ELSE Head(ps).size + SumSizes(Tail(ps))

\* C24: total_sent_size is the sum of the payload sizes of the publishes the
\* transport has accepted, each counted once and none counted before it is
\* accepted.
C24_SentSizeAccounting == metrics.total_sent_size = SumSizes(sent)
IsMetrics(p) == p.topic = MetricsTopic

\* C22: a metrics record is emitted only from Normal, by one try_publish of
\* the record Metrics::next built; accepted, it is handed over at once;
\* rejected with queue-full, it is carried into SlowEventloop, and every
\* metrics record so carried is accepted by the transport later on.
C22_MetricsDelivery ==
    /\ [][ metrics'.sequence # metrics.sequence
           => /\ status = "Normal" /\ pc = "loop" /\ calls' = calls + 1
              /\ LET p == MetricsNext(metrics).publish IN
                 \/ status' = "Normal" /\ sent' = Append(sent, Norm(p))
                 \/ status' = "SlowEventloop" /\ carried' = p /\ sent' = sent
                 \/ exit' = "Client" /\ sent' = sent ]_vars
    /\ \A k \in 1..MaxTicks :
          (status = "SlowEventloop" /\ IsMetrics(carried) /\ carried.id = k)
             ~> (\E i \in DOMAIN sent : IsMetrics(sent[i]) /\ sent[i].id = k)

\* a metrics record reporting a lost segment was rejected with queue-full,
\* carried into SlowEventloop and accepted, with the counters already cleared
C22_Witness ==
    \E p \in carriedLog :
        /\ IsMetrics(p) /\ p.lost > 0 /\ Accepted(p)
        /\ metrics.lost_segments = 0 /\ metrics.errors = 0
\* C23: a line that does not parse is skipped: the connection stays, nothing
\* is routed or sent and the next line can be read; whenever collect() ends
\* (codec error, disconnect) start() is back at the top of its loop, and in
\* its accept loop an incoming action is served, with "Bridge down".
C23_BadLineAndDisconnect ==
    /\ [][ (nextLine' = nextLine + 1 /\ linesIn' = linesIn)
           => /\ bpc' = "collect" /\ data_tx' = data_tx
              /\ partitions' = partitions /\ routed' = routed ]_vars
    /\ [][ (bpc = "collect" /\ bpc' # "collect") => bpc' = "bind" ]_vars
    /\ []((bpc = "collect" /\ nextLine <= MaxLines) => ENABLED CollectFrame)
    /\ []((bpc = "accept" /\ ~actions_closed /\ nextAction <= MaxActions)
            => ENABLED StartAction)
    /\ [][ (bpc = "accept" /\ nextAction' # nextAction)
           => data_tx' = Append(data_tx, Response(nextAction, "Failed", "Bridge down")) ]_vars

\* the first line did not parse, the second was routed while action 1 was
\* current, and after the client left action 2 was answered "Bridge down"
C23_Witness ==
    /\ bpc = "accept" /\ nextLine = 3
    /\ linesIn = <<[stream |-> "imu", v |-> 2]>> /\ routed = linesIn
    /\ received = <<"collect", "accept">>
    /\ data_tx = <<Response(2, "Failed", "Bridge down")>>

\* C25: a forwarded action stops being the current action only by a line of
\* the client or by one "Action timed out" response carrying its id, also
\* when another action arrives first or the client disconnects.
C25_ActionResolvedOnce ==
    [][ (current_action # NoAction /\ current_action' # current_action
           /\ \E i \in DOMAIN forwarded : forwarded[i] = current_action)
        => \/ nextLine' = nextLine + 1
           \/ data_tx' = Append(data_tx, Response(current_action, "Failed",
                                                  "Action timed out")) ]_vars
\* C26: when execute returns an error after the busy check (the spawn failed,
\* or the child had no stdout), last_process_done is true again.
C26_FailurePathsResetFlag ==
    [][ (Len(results') > Len(results)
           /\ results'[Len(results')].result \in {"Io", "NoStdout"})
        => last_process_done' = TRUE ]_vars
====
